---- MODULE Spec2Model ----
(***************************************************************************)
(* sloc: the line classifier CodeParser::parse_line of src/main.cpp and    *)
(* the scanning loop of main that feeds it the lines of every file.        *)
(*                                                                         *)
(* A std::string is a sequence of one-character strings; positions are     *)
(* 0-based as in C++ (s[i] of the code is s[i + 1] here).                  *)
(***************************************************************************)
EXTENDS Integers, Sequences, FiniteSets

\* ---------------------------------------------------------------- bounds
\* Longest line std::getline delivers in Spec.
MaxLen == 3
\* Most lines std::getline delivers in Spec, over all files.
MaxLines == 3
\* Most files of the list built by create_list_of_src_files.
MaxFiles == 2
\* Longest line std::getline delivers in SpecLine.
MaxLongLen == 5

\* The longest text after the `/*` of a line of SpecOpener.
MaxRestLen == 4

\* The most items on the command line of SpecReport, and the most lines read
\* over all its files.
MaxRepFiles == 2
MaxRepLines == 2

\* The characters a line is made of: the four characters parse_line looks
\* for, a blank, a character of code and the two quotes of C literals.
Alphabet == {"/", "*", "!", " ", "a", "\"", "'"}

\* The characters of the lines of Spec, which follows whole files.
ScanAlphabet == {"/", "*", "!", " ", "a"}

\* Every line of at most n characters of A.
Lines(A, n) == UNION {[1..k -> A] : k \in 0..n}

\* ------------------------------------------------------------ std::string
\* std::string::npos, as the value find* return when nothing is found.  The
\* code only ever uses it as "not found", as a count meaning "to the end",
\* and in npos + 1, which wraps to 0.
npos == -1

\* The default set of characters to trim, " \t\n\r\f\v" (the alphabet holds
\* the first of them).
TrimChars == {" ", "\t", "\n", "\r", "\f"}

Min(S) == CHOOSE x \in S : \A y \in S : x <= y
Max(S) == CHOOSE x \in S : \A y \in S : x >= y

\* s.find_first_not_of(t): position of the first character not in t.
find_first_not_of(s, t) ==
  LET P == {i \in 0..(Len(s) - 1) : s[i + 1] \notin t}
  IN  IF P = {} THEN npos ELSE Min(P)

\* s.find_last_not_of(t): position of the last character not in t.
find_last_not_of(s, t) ==
  LET P == {i \in 0..(Len(s) - 1) : s[i + 1] \notin t}
  IN  IF P = {} THEN npos ELSE Max(P)

\* s.erase(pos, n): removes min(n, size - pos) characters from position pos;
\* n = npos removes to the end.
erase(s, pos, n) ==
  LET cnt == IF n = npos \/ n > Len(s) - pos THEN Len(s) - pos ELSE n
  IN  SubSeq(s, 1, pos) \o SubSeq(s, pos + cnt + 1, Len(s))

\* s.substr(pos, n), for pos <= size.
substr(s, pos, n) ==
  SubSeq(s, pos + 1, IF pos + n > Len(s) THEN Len(s) ELSE pos + n)

\* s.compare(pos, n, pat): 0 when s.substr(pos, n) equals pat; the code only
\* tests the result against 0, so every other result is 1 here.
compare(s, pos, n, pat) == IF substr(s, pos, n) = pat THEN 0 ELSE 1

\* s.find(pat, pos): the first position >= pos where pat occurs.
find(s, pat, pos) ==
  LET P == {i \in pos..(Len(s) - Len(pat)) : SubSeq(s, i + 1, i + Len(pat)) = pat}
  IN  IF P = {} THEN npos ELSE Min(P)

\* ltrim with a first erase that does nothing when the line holds nothing
\* but blanks (find_first_not_of = npos taken as a count of 0).
ltrim_keepblank(s, t) ==
  LET k == find_first_not_of(s, t)
  IN  IF k = npos THEN s ELSE erase(s, 0, k)

ltrim(s, t) == erase(s, 0, find_first_not_of(s, t))

rtrim(s, t) == erase(s, find_last_not_of(s, t) + 1, npos)

trim(s, t) == rtrim(ltrim(s, t), t)

\* ------------------------------------------------------------- CodeParser
\* A CodeParser as constructed: the member initialisers of the class.
CodeParser ==
  [blank_lines |-> 0, code_lines |-> 0, comment_lines |-> 0,
   doc_comment_lines |-> 0,
   in_block_comment |-> FALSE, in_doc_block_comment |-> FALSE]

\* The ScanState Normal: neither flag is set.
Normal(p) == ~p.in_block_comment /\ ~p.in_doc_block_comment

DocLine   == <<"/", "/", "/">>
DocLineB  == <<"/", "/", "!">>
DocBlock  == <<"/", "*", "*">>
DocBlockB == <<"/", "*", "!">>
LineCmt   == <<"/", "/">>
BlockCmt  == <<"/", "*">>
BlockEnd  == <<"*", "/">>

\* parse_line whose open-block-comment branch leaves the line that closes the
\* comment uncounted.
parse_line_closer_uncounted(p, line) ==
  LET trimmed == trim(line, TrimChars) IN
  IF trimmed = <<>>
  THEN [p EXCEPT !.blank_lines = @ + 1]
  ELSE IF compare(trimmed, 0, 3, DocLine) = 0 \/ compare(trimmed, 0, 3, DocLineB) = 0
  THEN [p EXCEPT !.doc_comment_lines = @ + 1]
  ELSE IF compare(trimmed, 0, 3, DocBlock) = 0 \/ compare(trimmed, 0, 3, DocBlockB) = 0
  THEN [p EXCEPT !.doc_comment_lines = @ + 1, !.in_doc_block_comment = TRUE]
  ELSE IF p.in_doc_block_comment
  THEN [p EXCEPT !.doc_comment_lines = @ + 1,
                 !.in_doc_block_comment =
                    IF find(trimmed, BlockEnd, 0) # npos THEN FALSE ELSE @]
  ELSE IF p.in_block_comment
  THEN IF find(trimmed, BlockEnd, 0) # npos
       THEN [p EXCEPT !.in_block_comment = FALSE]
       ELSE [p EXCEPT !.comment_lines = @ + 1]
  ELSE IF compare(trimmed, 0, 2, LineCmt) = 0
  THEN [p EXCEPT !.comment_lines = @ + 1]
  ELSE IF compare(trimmed, 0, 2, BlockCmt) = 0
  THEN [p EXCEPT !.comment_lines = @ + 1,
                 !.in_block_comment =
                    IF find(trimmed, BlockEnd, 2) = npos THEN TRUE ELSE @]
  ELSE [p EXCEPT !.code_lines = @ + 1]

\* parse_line that tests for a blank line after the tests of the two flags.
parse_line_blank_late(p, line) ==
  LET trimmed == trim(line, TrimChars) IN
  IF compare(trimmed, 0, 3, DocLine) = 0 \/ compare(trimmed, 0, 3, DocLineB) = 0
  THEN [p EXCEPT !.doc_comment_lines = @ + 1]
  ELSE IF compare(trimmed, 0, 3, DocBlock) = 0 \/ compare(trimmed, 0, 3, DocBlockB) = 0
  THEN [p EXCEPT !.doc_comment_lines = @ + 1, !.in_doc_block_comment = TRUE]
  ELSE IF p.in_doc_block_comment
  THEN [p EXCEPT !.doc_comment_lines = @ + 1,
                 !.in_doc_block_comment =
                    IF find(trimmed, BlockEnd, 0) # npos THEN FALSE ELSE @]
  ELSE IF p.in_block_comment
  THEN [p EXCEPT !.comment_lines = @ + 1,
                 !.in_block_comment =
                    IF find(trimmed, BlockEnd, 0) # npos THEN FALSE ELSE @]
  ELSE IF trimmed = <<>>
  THEN [p EXCEPT !.blank_lines = @ + 1]
  ELSE IF compare(trimmed, 0, 2, LineCmt) = 0
  THEN [p EXCEPT !.comment_lines = @ + 1]
  ELSE IF compare(trimmed, 0, 2, BlockCmt) = 0
  THEN [p EXCEPT !.comment_lines = @ + 1,
                 !.in_block_comment =
                    IF find(trimmed, BlockEnd, 2) = npos THEN TRUE ELSE @]
  ELSE [p EXCEPT !.code_lines = @ + 1]

\* parse_line that tests for `//` before it tests for `///` and `//!`.
parse_line_slashes_first(p, line) ==
  LET trimmed == trim(line, TrimChars) IN
  IF trimmed = <<>>
  THEN [p EXCEPT !.blank_lines = @ + 1]
  ELSE IF Normal(p) /\ compare(trimmed, 0, 2, LineCmt) = 0
  THEN [p EXCEPT !.comment_lines = @ + 1]
  ELSE IF compare(trimmed, 0, 3, DocLine) = 0 \/ compare(trimmed, 0, 3, DocLineB) = 0
  THEN [p EXCEPT !.doc_comment_lines = @ + 1]
  ELSE IF compare(trimmed, 0, 3, DocBlock) = 0 \/ compare(trimmed, 0, 3, DocBlockB) = 0
  THEN [p EXCEPT !.doc_comment_lines = @ + 1, !.in_doc_block_comment = TRUE]
  ELSE IF p.in_doc_block_comment
  THEN [p EXCEPT !.doc_comment_lines = @ + 1,
                 !.in_doc_block_comment =
                    IF find(trimmed, BlockEnd, 0) # npos THEN FALSE ELSE @]
  ELSE IF p.in_block_comment
  THEN [p EXCEPT !.comment_lines = @ + 1,
                 !.in_block_comment =
                    IF find(trimmed, BlockEnd, 0) # npos THEN FALSE ELSE @]
  ELSE IF compare(trimmed, 0, 2, BlockCmt) = 0
  THEN [p EXCEPT !.comment_lines = @ + 1,
                 !.in_block_comment =
                    IF find(trimmed, BlockEnd, 2) = npos THEN TRUE ELSE @]
  ELSE [p EXCEPT !.code_lines = @ + 1]

\* parse_line that looks for `//` anywhere in the line, not at its start.
parse_line_find_slashes(p, line) ==
  LET trimmed == trim(line, TrimChars) IN
  IF trimmed = <<>>
  THEN [p EXCEPT !.blank_lines = @ + 1]
  ELSE IF compare(trimmed, 0, 3, DocLine) = 0 \/ compare(trimmed, 0, 3, DocLineB) = 0
  THEN [p EXCEPT !.doc_comment_lines = @ + 1]
  ELSE IF compare(trimmed, 0, 3, DocBlock) = 0 \/ compare(trimmed, 0, 3, DocBlockB) = 0
  THEN [p EXCEPT !.doc_comment_lines = @ + 1, !.in_doc_block_comment = TRUE]
  ELSE IF p.in_doc_block_comment
  THEN [p EXCEPT !.doc_comment_lines = @ + 1,
                 !.in_doc_block_comment =
                    IF find(trimmed, BlockEnd, 0) # npos THEN FALSE ELSE @]
  ELSE IF p.in_block_comment
  THEN [p EXCEPT !.comment_lines = @ + 1,
                 !.in_block_comment =
                    IF find(trimmed, BlockEnd, 0) # npos THEN FALSE ELSE @]
  ELSE IF find(trimmed, LineCmt, 0) # npos
  THEN [p EXCEPT !.comment_lines = @ + 1]
  ELSE IF compare(trimmed, 0, 2, BlockCmt) = 0
  THEN [p EXCEPT !.comment_lines = @ + 1,
                 !.in_block_comment =
                    IF find(trimmed, BlockEnd, 2) = npos THEN TRUE ELSE @]
  ELSE [p EXCEPT !.code_lines = @ + 1]

\* parse_line that looks for `/*` anywhere in the line, not at its start.
parse_line_find_block(p, line) ==
  LET trimmed == trim(line, TrimChars)
      open    == find(trimmed, BlockCmt, 0) IN
  IF trimmed = <<>>
  THEN [p EXCEPT !.blank_lines = @ + 1]
  ELSE IF compare(trimmed, 0, 3, DocLine) = 0 \/ compare(trimmed, 0, 3, DocLineB) = 0
  THEN [p EXCEPT !.doc_comment_lines = @ + 1]
  ELSE IF compare(trimmed, 0, 3, DocBlock) = 0 \/ compare(trimmed, 0, 3, DocBlockB) = 0
  THEN [p EXCEPT !.doc_comment_lines = @ + 1, !.in_doc_block_comment = TRUE]
  ELSE IF p.in_doc_block_comment
  THEN [p EXCEPT !.doc_comment_lines = @ + 1,
                 !.in_doc_block_comment =
                    IF find(trimmed, BlockEnd, 0) # npos THEN FALSE ELSE @]
  ELSE IF p.in_block_comment
  THEN [p EXCEPT !.comment_lines = @ + 1,
                 !.in_block_comment =
                    IF find(trimmed, BlockEnd, 0) # npos THEN FALSE ELSE @]
  ELSE IF compare(trimmed, 0, 2, LineCmt) = 0
  THEN [p EXCEPT !.comment_lines = @ + 1]
  ELSE IF open # npos
  THEN [p EXCEPT !.comment_lines = @ + 1,
                 !.in_block_comment =
                    IF find(trimmed, BlockEnd, open + 2) = npos THEN TRUE ELSE @]
  ELSE [p EXCEPT !.code_lines = @ + 1]

\* parse_line whose blank-line branch also leaves any open comment.
parse_line_blank_resets(p, line) ==
  LET trimmed == trim(line, TrimChars) IN
  IF trimmed = <<>>
  THEN [p EXCEPT !.blank_lines = @ + 1,
                 !.in_block_comment = FALSE, !.in_doc_block_comment = FALSE]
  ELSE IF compare(trimmed, 0, 3, DocLine) = 0 \/ compare(trimmed, 0, 3, DocLineB) = 0
  THEN [p EXCEPT !.doc_comment_lines = @ + 1]
  ELSE IF compare(trimmed, 0, 3, DocBlock) = 0 \/ compare(trimmed, 0, 3, DocBlockB) = 0
  THEN [p EXCEPT !.doc_comment_lines = @ + 1, !.in_doc_block_comment = TRUE]
  ELSE IF p.in_doc_block_comment
  THEN [p EXCEPT !.doc_comment_lines = @ + 1,
                 !.in_doc_block_comment =
                    IF find(trimmed, BlockEnd, 0) # npos THEN FALSE ELSE @]
  ELSE IF p.in_block_comment
  THEN [p EXCEPT !.comment_lines = @ + 1,
                 !.in_block_comment =
                    IF find(trimmed, BlockEnd, 0) # npos THEN FALSE ELSE @]
  ELSE IF compare(trimmed, 0, 2, LineCmt) = 0
  THEN [p EXCEPT !.comment_lines = @ + 1]
  ELSE IF compare(trimmed, 0, 2, BlockCmt) = 0
  THEN [p EXCEPT !.comment_lines = @ + 1,
                 !.in_block_comment =
                    IF find(trimmed, BlockEnd, 2) = npos THEN TRUE ELSE @]
  ELSE [p EXCEPT !.code_lines = @ + 1]

\* parse_line without the branch that reads in_block_comment: the lines inside
\* a plain block comment go on to the tests of a line in state Normal.
parse_line_block_unread(p, line) ==
  LET trimmed == trim(line, TrimChars) IN
  IF trimmed = <<>>
  THEN [p EXCEPT !.blank_lines = @ + 1]
  ELSE IF compare(trimmed, 0, 3, DocLine) = 0 \/ compare(trimmed, 0, 3, DocLineB) = 0
  THEN [p EXCEPT !.doc_comment_lines = @ + 1]
  ELSE IF compare(trimmed, 0, 3, DocBlock) = 0 \/ compare(trimmed, 0, 3, DocBlockB) = 0
  THEN [p EXCEPT !.doc_comment_lines = @ + 1, !.in_doc_block_comment = TRUE]
  ELSE IF p.in_doc_block_comment
  THEN [p EXCEPT !.doc_comment_lines = @ + 1,
                 !.in_doc_block_comment =
                    IF find(trimmed, BlockEnd, 0) # npos THEN FALSE ELSE @]
  ELSE IF compare(trimmed, 0, 2, LineCmt) = 0
  THEN [p EXCEPT !.comment_lines = @ + 1]
  ELSE IF compare(trimmed, 0, 2, BlockCmt) = 0
  THEN [p EXCEPT !.comment_lines = @ + 1,
                 !.in_block_comment =
                    IF find(trimmed, BlockEnd, 2) = npos THEN TRUE ELSE @]
  ELSE [p EXCEPT !.code_lines = @ + 1]

\* parse_line that looks for the `*/` of a plain one-line comment from the
\* start of the line, so that the `*` of the opener can close it.
parse_line_closer_from_start(p, line) ==
  LET trimmed == trim(line, TrimChars) IN
  IF trimmed = <<>>
  THEN [p EXCEPT !.blank_lines = @ + 1]
  ELSE IF compare(trimmed, 0, 3, DocLine) = 0 \/ compare(trimmed, 0, 3, DocLineB) = 0
  THEN [p EXCEPT !.doc_comment_lines = @ + 1]
  ELSE IF compare(trimmed, 0, 3, DocBlock) = 0 \/ compare(trimmed, 0, 3, DocBlockB) = 0
  THEN [p EXCEPT !.doc_comment_lines = @ + 1, !.in_doc_block_comment = TRUE]
  ELSE IF p.in_doc_block_comment
  THEN [p EXCEPT !.doc_comment_lines = @ + 1,
                 !.in_doc_block_comment =
                    IF find(trimmed, BlockEnd, 0) # npos THEN FALSE ELSE @]
  ELSE IF p.in_block_comment
  THEN [p EXCEPT !.comment_lines = @ + 1,
                 !.in_block_comment =
                    IF find(trimmed, BlockEnd, 0) # npos THEN FALSE ELSE @]
  ELSE IF compare(trimmed, 0, 2, LineCmt) = 0
  THEN [p EXCEPT !.comment_lines = @ + 1]
  ELSE IF compare(trimmed, 0, 2, BlockCmt) = 0
  THEN [p EXCEPT !.comment_lines = @ + 1,
                 !.in_block_comment =
                    IF find(trimmed, BlockEnd, 0) = npos THEN TRUE ELSE @]
  ELSE [p EXCEPT !.code_lines = @ + 1]

\* void CodeParser::parse_line(const std::string& line): the parser p after
\* the call.  The counters are int; the bounds keep them far from INT_MAX.
parse_line(p, line) ==
  LET trimmed == trim(line, TrimChars) IN
  IF trimmed = <<>>
  THEN [p EXCEPT !.blank_lines = @ + 1]
  ELSE IF compare(trimmed, 0, 3, DocLine) = 0 \/ compare(trimmed, 0, 3, DocLineB) = 0
  THEN [p EXCEPT !.doc_comment_lines = @ + 1]
  ELSE IF compare(trimmed, 0, 3, DocBlock) = 0 \/ compare(trimmed, 0, 3, DocBlockB) = 0
  THEN [p EXCEPT !.doc_comment_lines = @ + 1, !.in_doc_block_comment = TRUE]
  ELSE IF p.in_doc_block_comment
  THEN [p EXCEPT !.doc_comment_lines = @ + 1,
                 !.in_doc_block_comment =
                    IF find(trimmed, BlockEnd, 0) # npos THEN FALSE ELSE @]
  ELSE IF p.in_block_comment
  THEN [p EXCEPT !.comment_lines = @ + 1,
                 !.in_block_comment =
                    IF find(trimmed, BlockEnd, 0) # npos THEN FALSE ELSE @]
  ELSE IF compare(trimmed, 0, 2, LineCmt) = 0
  THEN [p EXCEPT !.comment_lines = @ + 1]
  ELSE IF compare(trimmed, 0, 2, BlockCmt) = 0
  THEN [p EXCEPT !.comment_lines = @ + 1,
                 !.in_block_comment =
                    IF find(trimmed, BlockEnd, 2) = npos THEN TRUE ELSE @]
  ELSE [p EXCEPT !.code_lines = @ + 1]

\* ------------------------------------------------------------------- main
\* enum lang_type_e
C     == 0
CPP   == 1
H     == 2
HPP   == 3
UNDEF == 4

\* std::nullopt, the result of id_lang_type for an extension it does not know.
nullopt == -1

\* A FileInfo as its constructor makes it from no argument: FileInfo().
FileInfo ==
  [filename |-> <<>>, type |-> UNDEF,
   n_blank |-> 0, n_comments |-> 0, n_doc |-> 0, n_loc |-> 0, n_lines |-> 0]

\* The value of a character as unsigned char, for the characters of the
\* file names of the model.
Ord(c) ==
  CASE c = "." -> 46 [] c = "C" -> 67 [] c = "H" -> 72 [] c = "P" -> 80
    [] c = "a" -> 97 [] c = "b" -> 98 [] c = "c" -> 99 [] c = "h" -> 104
    [] c = "p" -> 112 [] c = "x" -> 120

\* std::tolower of a character.
tolower(c) ==
  CASE c = "C" -> "c" [] c = "H" -> "h" [] c = "P" -> "p" [] OTHER -> c

\* std::string to_lower(const std::string& str)
to_lower(str) == [i \in 1..Len(str) |-> tolower(str[i])]

\* bool ends_with(const std::string& str, const std::string& suffix)
ends_with(str, suffix) ==
  /\ Len(str) >= Len(suffix)
  /\ compare(str, Len(str) - Len(suffix), Len(suffix), suffix) = 0

\* std::optional<lang_type_e> id_lang_type(const std::string& filename)
id_lang_type(filename) ==
  IF ends_with(filename, <<".", "c">>) THEN C
  ELSE IF ends_with(filename, <<".", "c", "p", "p">>) THEN CPP
  ELSE IF ends_with(filename, <<".", "h">>) THEN H
  ELSE IF ends_with(filename, <<".", "h", "p", "p">>) THEN HPP
  ELSE nullopt

\* std::string lang_type_to_string(lang_type_e type)
lang_type_to_string(type) ==
  CASE type = C -> "C" [] type = CPP -> "C++" [] type = H -> "C Header"
    [] type = HPP -> "C++ Header" [] type = UNDEF -> "Unknown"
    [] OTHER -> "Invalid"

\* FileList create_list_of_src_files(src_list, recursive_search), for a
\* src_list of regular files: a FileInfo for every item with a known
\* extension, in the order of src_list.
RECURSIVE create_list_of_src_files(_)
create_list_of_src_files(src_list) ==
  IF src_list = <<>> THEN <<>>
  ELSE LET item      == src_list[Len(src_list)]
           file_list == create_list_of_src_files(SubSeq(src_list, 1, Len(src_list) - 1))
           lang_type == id_lang_type(to_lower(item))
       IN  IF lang_type # nullopt
           THEN Append(file_list, [FileInfo EXCEPT !.filename = item, !.type = lang_type])
           ELSE file_list

\* a < b of std::string: lexicographic, by unsigned char.
RECURSIVE StrLess(_, _)
StrLess(a, b) ==
  IF b = <<>> THEN FALSE
  ELSE IF a = <<>> THEN TRUE
  ELSE IF Ord(Head(a)) # Ord(Head(b)) THEN Ord(Head(a)) < Ord(Head(b))
  ELSE StrLess(Tail(a), Tail(b))

\* comp of sort_files with the `a` criterion comparing n_loc, not n_lines.
comp_all_is_loc(a, b, method) ==
  LET ascending == method[1]
      criteria  == method[2]
  IN  CASE criteria = "f" ->
             IF ascending THEN StrLess(a.filename, b.filename)
                          ELSE StrLess(b.filename, a.filename)
        [] criteria = "t" -> IF ascending THEN a.type < b.type ELSE a.type > b.type
        [] criteria = "c" ->
             IF ascending THEN a.n_comments < b.n_comments ELSE a.n_comments > b.n_comments
        [] criteria = "d" -> IF ascending THEN a.n_doc < b.n_doc ELSE a.n_doc > b.n_doc
        [] criteria = "b" -> IF ascending THEN a.n_blank < b.n_blank ELSE a.n_blank > b.n_blank
        [] criteria = "s" -> IF ascending THEN a.n_loc < b.n_loc ELSE a.n_loc > b.n_loc
        [] criteria = "a" -> IF ascending THEN a.n_loc < b.n_loc ELSE a.n_loc > b.n_loc
        [] OTHER -> TRUE

\* The lambda comp of sort_files: whether a goes before b.
comp(a, b, method) ==
  LET ascending == method[1]
      criteria  == method[2]
  IN  CASE criteria = "f" ->
             IF ascending THEN StrLess(a.filename, b.filename)
                          ELSE StrLess(b.filename, a.filename)
        [] criteria = "t" -> IF ascending THEN a.type < b.type ELSE a.type > b.type
        [] criteria = "c" ->
             IF ascending THEN a.n_comments < b.n_comments ELSE a.n_comments > b.n_comments
        [] criteria = "d" -> IF ascending THEN a.n_doc < b.n_doc ELSE a.n_doc > b.n_doc
        [] criteria = "b" -> IF ascending THEN a.n_blank < b.n_blank ELSE a.n_blank > b.n_blank
        [] criteria = "s" -> IF ascending THEN a.n_loc < b.n_loc ELSE a.n_loc > b.n_loc
        [] criteria = "a" -> IF ascending THEN a.n_lines < b.n_lines ELSE a.n_lines > b.n_lines
        [] OTHER -> TRUE

\* The permutations of 1..n.
Perms(n) == {p \in [1..n -> 1..n] : \A i, j \in 1..n : p[i] = p[j] => i = j}

\* std::sort(files.begin(), files.end(), comp): std::sort is not stable, so
\* every arrangement of files that comp leaves in order is a possible result.
sort_files(fs, method) ==
  {q \in {[i \in 1..Len(fs) |-> fs[p[i]]] : p \in Perms(Len(fs))} :
     \A i, j \in 1..Len(fs) : i < j => ~comp(q[j], q[i], method)}

\* The SUM row of print_table after the files fs: the loop of the sums.
RECURSIVE sum_row(_)
sum_row(fs) ==
  IF fs = <<>>
  THEN [sum_comments |-> 0, sum_doc |-> 0, sum_blank |-> 0, sum_loc |-> 0, sum_lines |-> 0]
  ELSE LET r == sum_row(SubSeq(fs, 1, Len(fs) - 1))
           f == fs[Len(fs)]
       IN  [sum_comments |-> r.sum_comments + f.n_comments,
            sum_doc      |-> r.sum_doc + f.n_doc,
            sum_blank    |-> r.sum_blank + f.n_blank,
            sum_loc      |-> r.sum_loc + f.n_loc,
            sum_lines    |-> r.sum_lines + f.n_lines]

\* The row print_table writes for file f; `total` is computed from the four
\* counts.  The name is written relative to the base directory, which is `.`
\* for an input list of files: the name as given.  The widths and the
\* percentages of the columns are left out.
table_row(f) ==
  [filename |-> f.filename, language |-> lang_type_to_string(f.type),
   comments |-> f.n_comments, doc |-> f.n_doc, blank |-> f.n_blank,
   code |-> f.n_loc, total |-> f.n_blank + f.n_comments + f.n_doc + f.n_loc]

\* Nothing written to std::cout yet.
NoOutput == [printed |-> FALSE, rows |-> <<>>, sum |-> <<>>]

\* print_table that writes the SUM row for one file too.
print_table_sum_for_one(fs) ==
  IF fs = <<>>
  THEN [printed |-> TRUE, rows |-> <<>>, sum |-> <<>>]
  ELSE [printed |-> TRUE,
        rows    |-> [i \in 1..Len(fs) |-> table_row(fs[i])],
        sum     |-> IF Len(fs) >= 1 THEN <<sum_row(fs)>> ELSE <<>>]

\* void print_table(const FileList& files, base_dir): what it writes, the
\* rows of the files and the SUM row (a sequence of none or one row); for no
\* file it writes "No files processed." and no row.
print_table(fs) ==
  IF fs = <<>>
  THEN [printed |-> TRUE, rows |-> <<>>, sum |-> <<>>]
  ELSE [printed |-> TRUE,
        rows    |-> [i \in 1..Len(fs) |-> table_row(fs[i])],
        sum     |-> IF Len(fs) > 1 THEN <<sum_row(fs)>> ELSE <<>>]

VARIABLES
  pc,      \* where main is: "for", "getline", "parse_line", "parsed",
           \* "scanned", "sorted", "done", "exit_failure"
  run_options,  \* RunningOpt run_options: input_list, should_order,
           \* ordering_method (every item of input_list is a regular file)
  files,   \* FileList files
  idx,     \* the position of `file` of the range-for in files, from 1
  parser,  \* CodeParser parser
  line,    \* std::string line
  out,     \* what print_table wrote to std::cout
  prev,    \* history: parser before the last step that assigned it
  fed,     \* history: fed[i] is the number of lines getline read from file i
  span,    \* history: where the last line parsed lies in a plain block
           \* comment that spans lines: "none", "opener", "inside", "closer"
  lit,     \* history: the literal context at the end of the line getline
           \* erased last: "code", "str", "chr"
  open_failed  \* history: a file of the list did not open

vars == <<pc, run_options, files, idx, parser, line, out, prev, fed, span, lit,
          open_failed>>

\* Whether non-blank text t opens a plain block comment that does not close
\* on its line: `/*`, not `/**` nor `/*!`, no `*/` after the opener.
OpensPlainBlock(t) ==
  /\ substr(t, 0, 2) = BlockCmt
  /\ substr(t, 0, 3) \notin {DocBlock, DocBlockB}
  /\ find(t, BlockEnd, 2) = npos

\* span after a call of parse_line(l) entered with parser p and span sp.
SpanNext(sp, p, l) ==
  IF sp \in {"opener", "inside"}
  THEN IF find(l, BlockEnd, 0) # npos THEN "closer" ELSE "inside"
  ELSE IF Normal(p) /\ OpensPlainBlock(trim(l, TrimChars)) THEN "opener" ELSE "none"

\* The literal context after the first k characters of l: "code", "str"
\* inside a string literal, "chr" inside a character literal.  A quote seen
\* inside the other kind of literal does not toggle.
RECURSIVE LitState(_, _)
LitState(l, k) ==
  IF k = 0 THEN "code"
  ELSE LET st == LitState(l, k - 1)
           c  == l[k]
       IN  CASE st = "code" -> IF c = "\"" THEN "str"
                               ELSE IF c = "'" THEN "chr" ELSE "code"
             [] st = "str"  -> IF c = "\"" THEN "code" ELSE "str"
             [] st = "chr"  -> IF c = "'" THEN "code" ELSE "chr"

\* The total number of lines read so far, over all files.
RECURSIVE SumSeq(_)
SumSeq(s) == IF s = <<>> THEN 0 ELSE Head(s) + SumSeq(Tail(s))

\* RunningOpt as validate_arguments leaves it when neither -s nor -S is
\* given, for the input list il.
NoSortOpt(il) ==
  [input_list |-> il, should_order |-> FALSE, ordering_method |-> <<FALSE, "">>]

\* main up to the scanning loop, with the options opts.
InitWith(opts) ==
  /\ pc = "for"
  /\ run_options = opts
  /\ files = create_list_of_src_files(opts.input_list)
  /\ fed = [i \in 1..Len(create_list_of_src_files(opts.input_list)) |-> 0]
  /\ idx = 1
  /\ parser = CodeParser
  /\ line = <<>>
  /\ out = NoOutput
  /\ prev = CodeParser
  /\ span = "none"
  /\ lit = "code"
  /\ open_failed = FALSE

\* The name of the files of Spec, and a name create_list_of_src_files skips.
ScanName == <<"a", ".", "h">>
SkippedName == <<"a", ".", "x">>

\* `sloc a.h ... a.h`, of 1 to MaxFiles files, and `sloc a.x`, of no file:
\* validate_arguments ends the process when the input list is empty.
Init ==
  \E n \in 0..MaxFiles :
     InitWith(NoSortOpt(IF n = 0 THEN <<SkippedName>> ELSE [i \in 1..n |-> ScanName]))

\* OpenFile with the parser declared before the loop: one parser for all files.
OpenFile_one_parser ==
  /\ pc = "for" /\ idx <= Len(files)
  /\ parser' = parser
  /\ prev' = parser
  /\ line' = <<>>
  /\ span' = "none"
  /\ lit' = "code"
  /\ pc' = "getline"
  /\ UNCHANGED <<run_options, files, idx, out, fed, open_failed>>

\* The range-for reaches a file that opens: `CodeParser parser; std::string line;`
OpenFile ==
  /\ pc = "for" /\ idx <= Len(files)
  /\ parser' = CodeParser
  /\ prev' = parser
  /\ line' = <<>>
  /\ span' = "none"
  /\ lit' = "code"
  /\ pc' = "getline"
  /\ UNCHANGED <<run_options, files, idx, out, fed, open_failed>>

\* void usage(std::string message = ""): how the process ends, after the
\* message and the help were written:
\* std::exit(message.empty() ? EXIT_SUCCESS : EXIT_FAILURE).
usage(message) == IF message = "" THEN "exit_success" ELSE "exit_failure"

\* OpenFail with a usage that returns: the `continue` goes to the next file.
OpenFail_continue ==
  /\ pc = "for" /\ idx <= Len(files)
  /\ open_failed' = TRUE
  /\ idx' = idx + 1
  /\ UNCHANGED <<pc, run_options, files, parser, line, out, prev, fed, span, lit>>

\* The range-for reaches a file that does not open: usage("Could not open
\* file") writes the message and the help to std::cerr and calls
\* std::exit(EXIT_FAILURE).
OpenFail ==
  /\ pc = "for" /\ idx <= Len(files)
  /\ open_failed' = TRUE
  /\ pc' = usage("Could not open file")
  /\ UNCHANGED <<run_options, files, idx, parser, line, out, prev, fed, span, lit>>

\* std::getline reads one more line of the file into `line`.
Getline(l) ==
  /\ pc = "getline"
  /\ line' = l
  /\ fed' = [fed EXCEPT ![idx] = @ + 1]
  /\ pc' = "parse_line"
  /\ UNCHANGED <<run_options, files, idx, parser, out, prev, span, lit, open_failed>>

GetlineExtract ==
  /\ pc = "getline"
  /\ SumSeq(fed) < MaxLines
  /\ \E l \in Lines(ScanAlphabet, MaxLen) : Getline(l)

\* std::getline meets the end of the file: the loop ends and the counts of
\* the parser are stored in `file`.
GetlineEof ==
  /\ pc = "getline"
  /\ files' = [files EXCEPT ![idx] =
        [@ EXCEPT
           !.n_blank    = parser.blank_lines,
           !.n_comments = parser.comment_lines,
           !.n_doc      = parser.doc_comment_lines,
           !.n_loc      = parser.code_lines,
           !.n_lines    = parser.blank_lines + parser.comment_lines
                          + parser.doc_comment_lines + parser.code_lines]]
  /\ idx' = idx + 1
  /\ pc' = "for"
  /\ UNCHANGED <<run_options, parser, line, out, prev, fed, span, lit, open_failed>>

\* ParseLine with the literal context kept in a member of the parser and not
\* reset: a line that follows an unterminated literal starts inside it.
ParseLine_literal_carried ==
  /\ pc = "parse_line"
  /\ parser' = IF lit = "code" THEN parse_line(parser, line)
               ELSE parse_line(parser, <<"a">> \o line)
  /\ prev' = parser
  /\ span' = SpanNext(span, parser, line)
  /\ pc' = "parsed"
  /\ UNCHANGED <<run_options, files, idx, line, out, fed, lit, open_failed>>

\* parser.parse_line(line)
ParseLine ==
  /\ pc = "parse_line"
  /\ parser' = parse_line(parser, line)
  /\ prev' = parser
  /\ span' = SpanNext(span, parser, line)
  /\ pc' = "parsed"
  /\ UNCHANGED <<run_options, files, idx, line, out, fed, lit, open_failed>>

\* The next call of std::getline starts by erasing `line`.
GetlineErase ==
  /\ pc = "parsed"
  /\ line' = <<>>
  /\ lit' = LitState(line, Len(line))
  /\ pc' = "getline"
  /\ UNCHANGED <<run_options, files, idx, parser, out, prev, fed, span, open_failed>>

\* The range-for is over.
EndLoop ==
  /\ pc = "for" /\ idx > Len(files)
  /\ pc' = "scanned"
  /\ UNCHANGED <<run_options, files, idx, parser, line, out, prev, fed, span, lit,
                 open_failed>>

Next ==
  \/ OpenFile
  \/ OpenFail
  \/ GetlineExtract
  \/ GetlineEof
  \/ ParseLine
  \/ GetlineErase
  \/ EndLoop

Spec == Init /\ [][Next]_vars

\* ------------------------------------------------- one call of parse_line
\* SpecLine follows one call of parse_line on a line of up to MaxLongLen
\* characters of Alphabet, made after the lines of one of Prefixes were
\* scanned: the four combinations of the two flags, and state Normal after a
\* line that ends inside a string literal.
Prefixes ==
  {<<>>, <<BlockCmt>>, <<DocBlock>>, <<BlockCmt, DocBlock>>, <<<<"a", "\"">>>>}

\* parser, prev and span after the lines ls were read from a file and parsed.
RECURSIVE Scan(_)
Scan(ls) ==
  IF ls = <<>>
  THEN [parser |-> CodeParser, prev |-> CodeParser, span |-> "none"]
  ELSE LET s == Scan(SubSeq(ls, 1, Len(ls) - 1))
           l == ls[Len(ls)]
       IN  [parser |-> parse_line(s.parser, l),
            prev   |-> s.parser,
            span   |-> SpanNext(s.span, s.parser, l)]

\* The first file of `sloc a.h`, after the lines ls and the erase of the
\* next getline.
AfterLines(ls) ==
  /\ pc = "getline"
  /\ run_options = NoSortOpt(<<ScanName>>)
  /\ files = create_list_of_src_files(<<ScanName>>)
  /\ fed = <<Len(ls)>>
  /\ idx = 1
  /\ parser = Scan(ls).parser
  /\ prev = Scan(ls).prev
  /\ span = Scan(ls).span
  /\ lit = IF ls = <<>> THEN "code" ELSE LitState(ls[Len(ls)], Len(ls[Len(ls)]))
  /\ line = <<>>
  /\ out = NoOutput
  /\ open_failed = FALSE

InitLine == \E ls \in Prefixes : AfterLines(ls)

GetlineLong ==
  /\ pc = "getline"
  /\ \E l \in Lines(Alphabet, MaxLongLen) : Getline(l)

NextLine ==
  \/ GetlineLong
  \/ ParseLine

SpecLine == InitLine /\ [][NextLine]_vars

\* ------------------------------------- one call on a line that opens `/*`
\* SpecOpener is SpecLine for the lines whose first text is `/*`: the opener,
\* after no or one space, and up to MaxRestLen characters after it.
GetlineOpener ==
  /\ pc = "getline"
  /\ \E pad \in {<<>>, <<" ">>}, rest \in Lines(Alphabet, MaxRestLen) :
        Getline(pad \o BlockCmt \o rest)

NextOpener ==
  \/ GetlineOpener
  \/ ParseLine

SpecOpener == InitLine /\ [][NextOpener]_vars

\* ------------------------------------------------------- the whole of main
\* SpecReport follows main from the parsed command line to the table, on
\* files of few lines: one line for each verdict.
ReportNames == {<<"a", ".", "h">>, <<"b", ".", "C">>, <<"a", ".", "x">>}

ReportLines == {<<>>, <<"a">>, LineCmt, DocLine}

\* The criteria validate_arguments accepts after -s and -S.
Criteria == {"f", "t", "c", "d", "b", "s", "a"}

\* run_options after validate_arguments: an input list that is not empty;
\* -s<c> sets ascending order, -S<c> descending order, both with should_order.
InitReport ==
  \E n \in 1..MaxRepFiles :
    \E il \in [1..n -> ReportNames] :
       \/ InitWith(NoSortOpt(il))
       \/ \E asc \in BOOLEAN, c \in Criteria :
            InitWith([input_list |-> il, should_order |-> TRUE,
                      ordering_method |-> <<asc, c>>])

GetlineShort ==
  /\ pc = "getline"
  /\ SumSeq(fed) < MaxRepLines
  /\ \E l \in ReportLines : Getline(l)

\* NoSort that sorts by file name all the same.
NoSort_by_name ==
  /\ pc = "scanned"
  /\ ~run_options.should_order
  /\ files' \in sort_files(files, <<TRUE, "f">>)
  /\ pc' = "sorted"
  /\ UNCHANGED <<run_options, idx, parser, line, out, prev, fed, span, lit, open_failed>>

\* if (run_options.should_order) is false: files stays as it is.
NoSort ==
  /\ pc = "scanned"
  /\ ~run_options.should_order
  /\ pc' = "sorted"
  /\ UNCHANGED <<run_options, files, idx, parser, line, out, prev, fed, span, lit,
                 open_failed>>

\* if (run_options.should_order) sort_files(files, run_options.ordering_method);
SortFiles ==
  /\ pc = "scanned"
  /\ run_options.should_order
  /\ files' \in sort_files(files, run_options.ordering_method)
  /\ pc' = "sorted"
  /\ UNCHANGED <<run_options, idx, parser, line, out, prev, fed, span, lit, open_failed>>

\* print_table(files, base_dir); return 0;
PrintTable ==
  /\ pc = "sorted"
  /\ out' = print_table(files)
  /\ pc' = "done"
  /\ UNCHANGED <<run_options, files, idx, parser, line, prev, fed, span, lit,
                 open_failed>>

NextReport ==
  \/ OpenFile
  \/ OpenFail
  \/ GetlineShort
  \/ GetlineEof
  \/ ParseLine
  \/ GetlineErase
  \/ EndLoop
  \/ NoSort
  \/ SortFiles
  \/ PrintTable

SpecReport == InitReport /\ [][NextReport]_vars

\* ------------------------------------------------------------------ claims
Verdicts == {"Blank", "Comment", "DocComment", "Code"}

\* By how much the counter of verdict v grew from parser e to parser p.
Delta(e, p, v) ==
  CASE v = "Blank"      -> p.blank_lines - e.blank_lines
    [] v = "Comment"    -> p.comment_lines - e.comment_lines
    [] v = "DocComment" -> p.doc_comment_lines - e.doc_comment_lines
    [] v = "Code"       -> p.code_lines - e.code_lines

\* The call of parse_line that just returned counted its line as v and as
\* nothing else.
CountedAs(v) ==
  /\ pc = "parsed"
  /\ Delta(prev, parser, v) = 1
  /\ \A w \in Verdicts \ {v} : Delta(prev, parser, w) = 0

Total(p) == p.blank_lines + p.comment_lines + p.doc_comment_lines + p.code_lines

\* The ScanStates InBlockComment and InDocBlockComment.
InBlock(p) == p.in_block_comment /\ ~p.in_doc_block_comment
InDoc(p)   == p.in_doc_block_comment /\ ~p.in_block_comment

\* A line that is empty or holds only whitespace.
AllSpace(l) == \A i \in 1..Len(l) : l[i] \in TrimChars

\* The text of line l from its first non-whitespace character.
RECURSIVE Text(_)
Text(l) == IF l = <<>> \/ Head(l) \notin TrimChars THEN l ELSE Text(Tail(l))

StartsWith(t, pat) == Len(t) >= Len(pat) /\ SubSeq(t, 1, Len(pat)) = pat

\* Whether pat occurs in t at or after the 1-based position from.
Occurs(t, pat, from) ==
  \E i \in from..(Len(t) - Len(pat) + 1) : SubSeq(t, i, i + Len(pat) - 1) = pat

\* The 1-based positions of l where a comment marker starts: every marker
\* starts with `//` or `/*`.
MarkerPos(l) ==
  {i \in 1..(Len(l) - 1) : SubSeq(l, i, i + 1) \in {LineCmt, BlockCmt}}

\* C1: every call of parse_line adds 1 to exactly one of the four counters,
\* so the four counts of the parser add up to the number of lines read from
\* the file, and every scanned file has n_lines equal to the sum of its four
\* counts and to the number of lines read from it.
C1_CountsAddUp ==
  /\ pc = "parsed" => \E v \in Verdicts : CountedAs(v)
  /\ pc \in {"getline", "parsed"} => Total(parser) = fed[idx]
  /\ \A i \in 1..Len(files) :
       i < idx =>
         /\ files[i].n_lines = files[i].n_blank + files[i].n_comments
                               + files[i].n_doc + files[i].n_loc
         /\ files[i].n_lines = fed[i]

\* A file of two lines or more was scanned to its end inside an open comment.
C1_Witness ==
  /\ pc = "for" /\ idx > 1
  /\ files[idx - 1].n_lines >= 2
  /\ files[idx - 1].n_lines = fed[idx - 1]
  /\ ~Normal(parser)

\* C2: whatever the two flags are on entry, an empty or whitespace-only line
\* is counted as Blank and as nothing else.
C2_BlankInEveryState ==
  (pc = "parsed" /\ AllSpace(line)) => CountedAs("Blank")

\* A line of blanks was parsed inside an open plain block comment.
C2_Witness ==
  /\ pc = "parsed" /\ AllSpace(line) /\ Len(line) >= 1
  /\ InBlock(prev)
  /\ CountedAs("Blank")

\* C3: at most one of in_block_comment and in_doc_block_comment is true.
C3_AtMostOneFlag ==
  ~(parser.in_block_comment /\ parser.in_doc_block_comment)

\* C4: a non-blank line parsed in state InBlockComment is counted as Comment,
\* one parsed in state InDocBlockComment as DocComment, whatever its text.
C4_EntryStateDecides ==
  (pc = "parsed" /\ ~AllSpace(line)) =>
     /\ InBlock(prev) => CountedAs("Comment")
     /\ InDoc(prev) => CountedAs("DocComment")

\* C5: of a plain block comment that spans lines, the opening line is
\* Comment and leaves the state InBlockComment, the first line that holds
\* `*/` is Comment and leaves the state Normal, and no line from the one to
\* the other is counted as Code.
C5_PlainBlockSpan ==
  pc = "parsed" =>
     /\ span = "opener" => CountedAs("Comment") /\ InBlock(parser)
     /\ span = "closer" => CountedAs("Comment") /\ Normal(parser)
     /\ span \in {"opener", "inside", "closer"} => Delta(prev, parser, "Code") = 0

\* C6: a line parsed in state Normal that starts with `/**` or `/*!` is
\* counted as DocComment, and leaves the state InDocBlockComment if and only
\* if no `*/` follows the opener on the line.
C6_DocOpener ==
  (/\ pc = "parsed" /\ Normal(prev)
   /\ \/ StartsWith(Text(line), DocBlock)
      \/ StartsWith(Text(line), DocBlockB)) =>
     /\ CountedAs("DocComment")
     /\ ~parser.in_block_comment
     /\ parser.in_doc_block_comment <=> ~Occurs(Text(line), BlockEnd, 4)

\* C7: a line parsed in state Normal that starts with `///` or `//!` is
\* counted as DocComment, one that starts with `//` followed by neither `/`
\* nor `!` as Comment, and the state is still Normal after either.
C7_LineComments ==
  (pc = "parsed" /\ Normal(prev)) =>
     /\ (StartsWith(Text(line), DocLine) \/ StartsWith(Text(line), DocLineB))
          => CountedAs("DocComment") /\ Normal(parser)
     /\ (/\ StartsWith(Text(line), LineCmt)
         /\ ~StartsWith(Text(line), DocLine)
         /\ ~StartsWith(Text(line), DocLineB))
          => CountedAs("Comment") /\ Normal(parser)

\* An indented `//!` line was parsed in state Normal.
C7_Witness ==
  /\ pc = "parsed" /\ Normal(prev)
  /\ Text(line) # line
  /\ StartsWith(Text(line), DocLineB)
  /\ CountedAs("DocComment") /\ Normal(parser)

\* The text of l starts with code and a comment marker follows it.
MarkerAfterCode(l) ==
  /\ Text(l) # <<>>
  /\ 1 \notin MarkerPos(Text(l))
  /\ MarkerPos(Text(l)) # {}

\* C8: a line parsed in state Normal in which a comment marker appears only
\* after non-whitespace code is counted as Code.
C8_TrailingComment ==
  (pc = "parsed" /\ Normal(prev) /\ MarkerAfterCode(line)) => CountedAs("Code")

\* `a` followed by a doc block opener was parsed in state Normal.
C8_Witness ==
  /\ pc = "parsed" /\ Normal(prev)
  /\ MarkerAfterCode(line)
  /\ StartsWith(Text(line), <<"a">>)
  /\ Occurs(line, DocBlock, 1)
  /\ CountedAs("Code")

\* Line l holds comment markers, all of them inside a literal.
MarkersOnlyInLiterals(l) ==
  /\ MarkerPos(l) # {}
  /\ \A i \in MarkerPos(l) : LitState(l, i - 1) # "code"

\* C9: a line parsed in state Normal whose only comment-like text lies inside
\* a string or character literal is counted as Code and leaves the state
\* Normal.
C9_MarkerInLiteral ==
  (pc = "parsed" /\ Normal(prev) /\ MarkersOnlyInLiterals(line)) =>
     CountedAs("Code") /\ Normal(parser)

\* A line with `/*` inside a string literal that is closed on the line was
\* parsed in state Normal.
C9_Witness ==
  /\ pc = "parsed" /\ Normal(prev)
  /\ MarkersOnlyInLiterals(line)
  /\ \E i \in MarkerPos(line) :
       /\ SubSeq(line, i, i + 1) = BlockCmt
       /\ LitState(line, i - 1) = "str"
  /\ LitState(line, Len(line)) = "code"
  /\ CountedAs("Code") /\ Normal(parser)

\* C10: the scan of every file starts with a parser as constructed (state
\* Normal, every counter 0), whatever the files before it held: the first
\* line of every file is parsed from that state.
C10_FreshParserPerFile ==
  /\ (pc = "getline" /\ fed[idx] = 0) => parser = CodeParser
  /\ (pc = "parse_line" /\ fed[idx] = 1) => parser = CodeParser
  /\ (pc = "parsed" /\ fed[idx] = 1) => prev = CodeParser

\* The second file was opened after the first ended inside an open comment.
C10_Witness ==
  /\ pc = "getline" /\ idx = 2 /\ fed[idx] = 0
  /\ fed[1] >= 1
  /\ ~Normal(prev)
  /\ parser = CodeParser

\* C15: a call of parse_line on an empty or whitespace-only line leaves both
\* flags as they were and changes no counter but blank_lines.
C15_BlankLeavesState ==
  (pc = "parsed" /\ AllSpace(line)) =>
     /\ parser.in_block_comment = prev.in_block_comment
     /\ parser.in_doc_block_comment = prev.in_doc_block_comment
     /\ parser.code_lines = prev.code_lines
     /\ parser.comment_lines = prev.comment_lines
     /\ parser.doc_comment_lines = prev.doc_comment_lines

\* An empty line was parsed inside an open doc block comment, which is still
\* open.
C15_Witness ==
  /\ pc = "parsed" /\ line = <<>>
  /\ InDoc(prev) /\ InDoc(parser)
  /\ parser.blank_lines = prev.blank_lines + 1

\* The 1-based positions of l where a comment marker starts outside a
\* literal.
MarkersOutside(l) == {i \in MarkerPos(l) : LitState(l, i - 1) = "code"}

\* The first comment marker of l outside a literal is a plain `/*` and no
\* `*/` follows it on the line.
PlainOpenerUnclosed(l) ==
  /\ MarkersOutside(l) # {}
  /\ LET m == Min(MarkersOutside(l))
     IN  /\ SubSeq(l, m, m + 1) = BlockCmt
         /\ ~StartsWith(SubSeq(l, m, Len(l)), DocBlock)
         /\ ~StartsWith(SubSeq(l, m, Len(l)), DocBlockB)
         /\ ~Occurs(l, BlockEnd, m + 2)

\* C16: a line parsed in state Normal whose first comment marker outside a
\* literal is a plain `/*`, at any position of the line, with no `*/` after
\* it, leaves in_block_comment set for the next call.
C16_OpenerAnywhere ==
  (pc = "parsed" /\ Normal(prev) /\ PlainOpenerUnclosed(line)) =>
     parser.in_block_comment

\* C19: a line is counted as Code only when both flags are false on entry,
\* and the call leaves both false.
C19_CodeOnlyInNormal ==
  (pc = "parsed" /\ Delta(prev, parser, "Code") # 0) =>
     Normal(prev) /\ Normal(parser)

\* A line of code was counted in state Normal, after a line that was not code.
C19_Witness ==
  /\ pc = "parsed" /\ CountedAs("Code")
  /\ Normal(prev) /\ Normal(parser)
  /\ fed[idx] >= 2
  /\ Total(prev) > prev.code_lines

\* The text of a line that opens a plain block comment: `/*`, and neither
\* `/**` nor `/*!`.
PlainOpenerFirst(l) ==
  /\ StartsWith(Text(l), BlockCmt)
  /\ ~StartsWith(Text(l), DocBlock)
  /\ ~StartsWith(Text(l), DocBlockB)

\* C17: a line parsed in state Normal whose first text is a plain `/*` is
\* counted as Comment, and in_block_comment is set for the next call exactly
\* when no `*/` occurs after the two characters of the opener; so `/*/` opens
\* a block comment, and `/* c */ code` leaves state Normal.
C17_PlainOpener ==
  (pc = "parsed" /\ Normal(prev) /\ PlainOpenerFirst(line)) =>
     /\ CountedAs("Comment")
     /\ ~parser.in_doc_block_comment
     /\ parser.in_block_comment <=> ~Occurs(Text(line), BlockEnd, 3)
     /\ line = <<"/", "*", "/">> => parser.in_block_comment

\* The line `/*a*/a` was parsed in state Normal: a comment closed on its line
\* with text after the closer, counted as Comment, and the state is Normal.
C17_Witness ==
  /\ pc = "parsed" /\ Normal(prev)
  /\ line = <<"/", "*", "a", "*", "/", "a">>
  /\ CountedAs("Comment")
  /\ Normal(parser)

\* A parser that has the flags of p and has counted nothing.
FlagsOnly(p) ==
  [CodeParser EXCEPT !.in_block_comment = p.in_block_comment,
                     !.in_doc_block_comment = p.in_doc_block_comment]

\* C18: the verdict of a line and the flags it leaves are those of its own
\* text parsed from the two flags at entry alone, whatever literal the line
\* before ended in.
C18_NoLiteralCarried ==
  pc = "parsed" =>
     LET alone == parse_line(FlagsOnly(prev), line)
     IN  /\ \A v \in Verdicts : Delta(prev, parser, v) = Delta(FlagsOnly(prev), alone, v)
         /\ parser.in_block_comment = alone.in_block_comment
         /\ parser.in_doc_block_comment = alone.in_doc_block_comment

\* The line before ended inside an unterminated literal, and a line that
\* starts with `//` was counted as Comment.
C18_Witness ==
  /\ pc = "parsed" /\ lit # "code"
  /\ Normal(prev)
  /\ StartsWith(line, LineCmt)
  /\ CountedAs("Comment")

\* The sum of the four counts of file f.
FourCounts(f) == f.n_blank + f.n_comments + f.n_doc + f.n_loc

\* The key c of file a is at most the key of file b: names by the order of
\* std::string, languages by the order of lang_type_e, total lines by the
\* sum of the four counts.
KeyLeq(a, b, c) ==
  CASE c = "f" -> ~StrLess(b.filename, a.filename)
    [] c = "t" -> a.type <= b.type
    [] c = "c" -> a.n_comments <= b.n_comments
    [] c = "d" -> a.n_doc <= b.n_doc
    [] c = "b" -> a.n_blank <= b.n_blank
    [] c = "s" -> a.n_loc <= b.n_loc
    [] c = "a" -> FourCounts(a) <= FourCounts(b)

\* t is a permutation of s.
IsPermutation(s, t) ==
  /\ Len(s) = Len(t)
  /\ \E p \in Perms(Len(s)) : \A i \in 1..Len(s) : t[i] = s[p[i]]

\* The list q is in the order of method: ascending or descending in its key.
InOrder(q, method) ==
  \A i, j \in 1..Len(q) :
     i < j => IF method[1] THEN KeyLeq(q[i], q[j], method[2])
                           ELSE KeyLeq(q[j], q[i], method[2])

\* C12: for every key of filename, language, comments, doc comments, blank,
\* code and total lines, sort_files leaves a permutation of the list it was
\* given, non-decreasing in the key when ascending and non-increasing when
\* descending; the key of total lines is the sum of the four counts.
C12_SortedPermutation ==
  [][(pc = "scanned" /\ pc' = "sorted" /\ run_options.should_order) =>
        /\ run_options.ordering_method[2] \in Criteria
        /\ IsPermutation(files, files')
        /\ InOrder(files', run_options.ordering_method)]_vars

\* `sloc -Sa a.h b.C` sorted two files by total lines, descending, and moved
\* the second file, which has lines but no line of code, to the front.
C12_Witness ==
  /\ pc = "sorted"
  /\ run_options.should_order
  /\ run_options.ordering_method = <<FALSE, "a">>
  /\ run_options.input_list = <<<<"a", ".", "h">>, <<"b", ".", "C">>>>
  /\ Len(files) = 2
  /\ files[1].filename = <<"b", ".", "C">>
  /\ files[1].n_loc = 0
  /\ files[1].n_lines > files[2].n_lines

\* The items of the input list that have the extension of a C or C++ file,
\* in the order of the command line.
Enumerated ==
  SelectSeq(run_options.input_list, LAMBDA f : id_lang_type(to_lower(f)) # nullopt)

\* C13: without -s and -S the rows of the table are the files in the order
\* they were enumerated from the input list, each with the lines read from it.
C13_EnumerationOrder ==
  (pc = "done" /\ ~run_options.should_order) =>
     /\ Len(out.rows) = Len(Enumerated)
     /\ \A i \in 1..Len(out.rows) :
           /\ out.rows[i].filename = Enumerated[i]
           /\ out.rows[i].total = fed[i]

\* `sloc b.C a.h` printed b.C before a.h, the file without lines before the
\* file with lines.
C13_Witness ==
  /\ pc = "done" /\ ~run_options.should_order
  /\ Len(out.rows) = 2
  /\ out.rows[1].filename = <<"b", ".", "C">>
  /\ out.rows[2].filename = <<"a", ".", "h">>
  /\ out.rows[1].total = 0
  /\ out.rows[2].total > 0

\* The sum of column Col(_) over the rows of the table.
ColumnSum(Col(_)) == SumSeq([i \in 1..Len(out.rows) |-> Col(out.rows[i])])

\* C14: the table has a SUM row exactly when it has more than one file row;
\* each of its sums is the sum of its column over the file rows, and its
\* total is the sum of its four sums.
C14_SumRow ==
  pc = "done" =>
     /\ Len(out.rows) = Len(files)
     /\ out.sum # <<>> <=> Len(out.rows) > 1
     /\ out.sum # <<>> =>
          LET s == out.sum[1]
          IN  /\ s.sum_comments = ColumnSum(LAMBDA r : r.comments)
              /\ s.sum_doc = ColumnSum(LAMBDA r : r.doc)
              /\ s.sum_blank = ColumnSum(LAMBDA r : r.blank)
              /\ s.sum_loc = ColumnSum(LAMBDA r : r.code)
              /\ s.sum_lines = ColumnSum(LAMBDA r : r.total)
              /\ s.sum_lines = s.sum_comments + s.sum_doc + s.sum_blank + s.sum_loc

\* A table of two files of one line each, a comment and a doc comment, with
\* a SUM row of two lines.
C14_Witness ==
  /\ pc = "done"
  /\ Len(out.rows) = 2
  /\ out.rows[1].comments = 1 /\ out.rows[2].doc = 1
  /\ out.sum # <<>>
  /\ out.sum[1].sum_comments = 1 /\ out.sum[1].sum_doc = 1
  /\ out.sum[1].sum_lines = 2

\* C20: once a file of the list did not open, the process has ended with the
\* failure status: nothing was read from that file or a later one, the list
\* is in the order it was enumerated, and nothing was printed.
C20_OpenFailureEndsRun ==
  open_failed =>
     /\ pc = "exit_failure"
     /\ out = NoOutput
     /\ \A j \in idx..Len(files) : fed[j] = 0 /\ FourCounts(files[j]) = 0
     /\ Len(files) = Len(Enumerated)
     /\ \A i \in 1..Len(files) : files[i].filename = Enumerated[i]

\* `sloc -sf b.C a.h`: b.C was scanned and had a line, a.h did not open; the
\* process has ended before the sort.
C20_Witness ==
  /\ open_failed /\ pc = "exit_failure"
  /\ run_options.should_order
  /\ run_options.ordering_method = <<TRUE, "f">>
  /\ idx = 2 /\ fed[1] >= 1
  /\ files[1].n_lines >= 1
  /\ files[1].filename = <<"b", ".", "C">>
  /\ files[2].filename = <<"a", ".", "h">>

====
